---- MODULE Spec2Model ----
(***************************************************************************)
(* Publication pipeline of ldiazsaez-group: scripts/fetch_scholar.py       *)
(* (ORCID DOIs -> OpenAlex + Crossref -> Europe PMC),                      *)
(* scripts/fetch_scholar_ORCID.py (Crossref by ORCID -> ORCID public API)  *)
(* and scripts/fetch_scholar_semanticscholar.py (Semantic Scholar).        *)
(*                                                                         *)
(* A Python str is a sequence of tokens.  A token is one character, except *)
(* the DOI resolver prefix "https://doi.org/" and the DOI registrant part  *)
(* "10.1/", which are single tokens.  A year is a tagged value because the *)
(* scripts carry both int and str years.                                   *)
(***************************************************************************)
EXTENDS Integers, Sequences, FiniteSets, TLC

\* ------------------------------------------------------------------ bounds
MaxItems == 2
MaxDois == 2
\* records on a full page of a paginated listing (rows / limit, 200 in the code)
PageRows == 5

\* ------------------------------------------------------------- str methods
Digits == {"0", "1", "2", "3", "4", "5", "6", "7", "8", "9"}

DigitVal(c) ==
    CASE c = "0" -> 0 [] c = "1" -> 1 [] c = "2" -> 2 [] c = "3" -> 3
      [] c = "4" -> 4 [] c = "5" -> 5 [] c = "6" -> 6 [] c = "7" -> 7
      [] c = "8" -> 8 [] c = "9" -> 9

DigitTok(d) ==
    CASE d = 0 -> "0" [] d = 1 -> "1" [] d = 2 -> "2" [] d = 3 -> "3"
      [] d = 4 -> "4" [] d = 5 -> "5" [] d = 6 -> "6" [] d = 7 -> "7"
      [] d = 8 -> "8" [] d = 9 -> "9"

\* ord() of the first character of a token: the order str comparison uses
Ord(c) ==
    CASE c = " " -> 32
      [] c \in Digits -> 48 + DigitVal(c)
      [] c = "10.1/" -> 49
      [] c = "A" -> 65 [] c = "B" -> 66 [] c = "C" -> 67
      [] c = "HTTPS://DOI.ORG/" -> 72
      [] c = "a" -> 97 [] c = "b" -> 98 [] c = "c" -> 99
      [] c = "https://doi.org/" -> 104
      [] OTHER -> 120

\* str.lower() on one token
LowerTok(c) ==
    CASE c = "A" -> "a" [] c = "B" -> "b" [] c = "C" -> "c"
      [] c = "HTTPS://DOI.ORG/" -> "https://doi.org/"
      [] OTHER -> c

lower(s) == [i \in 1..Len(s) |-> LowerTok(s[i])]

RECURSIVE lstrip(_)
lstrip(s) == IF s # <<>> /\ Head(s) = " " THEN lstrip(Tail(s)) ELSE s

RECURSIVE rstrip(_)
rstrip(s) ==
    IF s # <<>> /\ s[Len(s)] = " " THEN rstrip(SubSeq(s, 1, Len(s) - 1)) ELSE s

\* str.strip()
strip(s) == rstrip(lstrip(s))

\* re.sub(r"\s+", " ", s): every run of whitespace becomes one space
RECURSIVE collapse_ws(_)
collapse_ws(s) ==
    IF Len(s) < 2 THEN s
    ELSE IF s[1] = " " /\ s[2] = " " THEN collapse_ws(Tail(s))
    ELSE <<s[1]>> \o collapse_ws(Tail(s))

norm_ws(s) == collapse_ws(strip(s))

\* str.replace("https://doi.org/", "")
RECURSIVE strip_resolver(_)
strip_resolver(s) ==
    IF s = <<>> THEN <<>>
    ELSE IF Head(s) = "https://doi.org/" THEN strip_resolver(Tail(s))
    ELSE <<Head(s)>> \o strip_resolver(Tail(s))

\* a < b for str, as Python compares them
RECURSIVE StrLess(_, _)
StrLess(a, b) ==
    IF b = <<>> THEN FALSE
    ELSE IF a = <<>> THEN TRUE
    ELSE IF Ord(Head(a)) # Ord(Head(b)) THEN Ord(Head(a)) < Ord(Head(b))
    ELSE StrLess(Tail(a), Tail(b))

\* ------------------------------------------------------------------- years
YInt(n) == [k |-> "int", n |-> n, s |-> <<>>]
YStr(s) == [k |-> "str", n |-> 0, s |-> s]
\* None: a JSON null, or a key the payload does not have, read with .get()
YNone == [k |-> "none", n |-> 0, s |-> <<>>]

\* Python truthiness of a value (0, "" and None are falsy)
Truthy(y) ==
    CASE y.k = "int" -> y.n # 0
      [] y.k = "str" -> y.s # <<>>
      [] y.k = "none" -> FALSE

RECURSIVE IntToStr(_)
IntToStr(n) ==
    IF n < 10 THEN <<DigitTok(n)>>
    ELSE IntToStr(n \div 10) \o <<DigitTok(n % 10)>>

\* str(x)
str(y) ==
    CASE y.k = "int" -> IntToStr(y.n)
      [] y.k = "str" -> y.s
      [] y.k = "none" -> <<"N", "o", "n", "e">>

RECURSIVE ParseDigits(_)
ParseDigits(s) ==
    IF s = <<>> THEN 0
    ELSE ParseDigits(SubSeq(s, 1, Len(s) - 1)) * 10 + DigitVal(s[Len(s)])

AllDigits(s) == s # <<>> /\ \A i \in 1..Len(s) : s[i] \in Digits

safe_int(x) ==
    LET t == strip(str(x))
    IN  IF AllDigits(t) THEN ParseDigits(t) ELSE 0

\* int(y) accepts an int, or a str of digits with surrounding whitespace
safe_year(y) ==
    CASE y.k = "int" -> y.n
      [] y.k = "str" -> IF AllDigits(strip(y.s)) THEN ParseDigits(strip(y.s)) ELSE 0
      [] y.k = "none" -> 0

\* ----------------------------------------------------------------- records
PublicFields ==
    {"title", "authors", "year", "venue", "url", "eprint_url", "cited_by", "source"}

\* pop("doi") left out of write_output
pop_keep(it, f) == it

\* dict.pop(f, None)
pop(it, f) == [g \in (DOMAIN it) \ {f} |-> it[g]]

\* it.get("doi") or ""
get_doi(it) == IF "doi" \in DOMAIN it THEN it.doi ELSE <<>>

\* --------------------------------------------------------- dedupe and sort
\* for it in items: if key in seen: continue; seen.add(key); out.append(it)
RECURSIVE dedupe_loop(_, _, _, _)
dedupe_loop(items, keys, seen, out) ==
    IF items = <<>> THEN out
    ELSE IF Head(keys) \in seen
         THEN dedupe_loop(Tail(items), Tail(keys), seen, out)
         ELSE dedupe_loop(Tail(items), Tail(keys), seen \cup {Head(keys)},
                          Append(out, Head(items)))

\* tuple comparison (int, str) < (int, str)
KeyLess(a, b) == a.y < b.y \/ (a.y = b.y /\ StrLess(a.t, b.t))

\* list.sort(key=..., reverse=True): descending in the whole key, and stable
\* (records with equal keys keep their order); entries are [k, it]
RECURSIVE insert_desc(_, _)
insert_desc(e, sorted) ==
    IF sorted = <<>> THEN <<e>>
    ELSE IF KeyLess(Head(sorted).k, e.k) THEN <<e>> \o sorted
    ELSE <<Head(sorted)>> \o insert_desc(e, Tail(sorted))

RECURSIVE sort_entries(_, _)
sort_entries(entries, acc) ==
    IF entries = <<>> THEN acc
    ELSE sort_entries(Tail(entries), insert_desc(Head(entries), acc))

sort_reverse(items, keys) ==
    LET entries == [i \in 1..Len(items) |-> [k |-> keys[i], it |-> items[i]]]
        sorted == sort_entries(entries, <<>>)
    IN  [i \in 1..Len(sorted) |-> sorted[i].it]

\* str(it.get("year") or "")
year_or_empty(y) == IF Truthy(y) THEN str(y) ELSE <<>>

\* a key that leaves the DOI out: title and year only
dedupe_key_title_year(it) ==
    [kind |-> "ty", v |-> lower(norm_ws(it.title)), y |-> year_or_empty(it.year)]

\* fetch_scholar.py: key of one record in dedupe_sort
dedupe_key(it) ==
    LET doi == strip(lower(get_doi(it)))
    IN  IF doi # <<>> THEN [kind |-> "doi", v |-> doi, y |-> <<>>]
        ELSE [kind |-> "ty", v |-> lower(norm_ws(it.title)),
              y |-> year_or_empty(it.year)]

\* the sort key of all three scripts' sorts, with safe_int
sort_key(r) == [y |-> safe_int(r.year), t |-> lower(r.title)]

\* fetch_scholar.py
dedupe_sort(items) ==
    LET out == dedupe_loop(items, [i \in 1..Len(items) |-> dedupe_key(items[i])],
                           {}, <<>>)
    IN  sort_reverse(out, [i \in 1..Len(out) |-> sort_key(out[i])])

\* fetch_scholar_ORCID.py: key of one record in norm_items
norm_items_key(it) ==
    LET doi == strip(lower(get_doi(it)))
    IN  IF doi # <<>> THEN [kind |-> "doi", v |-> doi, y |-> <<>>]
        ELSE [kind |-> "ty", v |-> strip(lower(it.title)),
              y |-> strip(year_or_empty(it.year))]

\* fetch_scholar_ORCID.py
norm_items(items) ==
    LET deduped == dedupe_loop(items,
                       [i \in 1..Len(items) |-> norm_items_key(items[i])], {}, <<>>)
    IN  sort_reverse(deduped, [i \in 1..Len(deduped) |-> sort_key(deduped[i])])

\* fetch_scholar_semanticscholar.py: key of one record in normalize_items
normalize_items_key(it) ==
    [kind |-> "ty", v |-> lower(strip(it.title)), y |-> strip(str(it.year))]

sort_key_s2(x) == [y |-> safe_year(x.year), t |-> lower(x.title)]

\* fetch_scholar_semanticscholar.py
normalize_items(items) ==
    LET dedup == dedupe_loop(items,
                     [i \in 1..Len(items) |-> normalize_items_key(items[i])], {}, <<>>)
    IN  sort_reverse(dedup, [i \in 1..Len(dedup) |-> sort_key_s2(dedup[i])])

\* ---------------------------------------------- fetch_scholar.py adapters
\* merge_records returns None; the fetchers return None for no record
NoneRec == [none |-> TRUE]

\* ", ".join(names)
RECURSIVE join(_)
join(names) ==
    IF names = <<>> THEN <<>>
    ELSE IF Len(names) = 1 THEN names[1]
    ELSE names[1] \o <<",", " ">> \o join(Tail(names))

\* doi.replace("https://doi.org/", "").strip().lower()
doi_plain_of(doi) == lower(strip(strip_resolver(doi)))

\* list_orcid_dois: the DOI one work-summary contributes ("" for none).
\* ws = [doi: the summary's DOI external id or "", put_code: has a put-code,
\*       full: [status, doi] the response to GET /work/<put-code>]
summary_doi(ws) ==
    LET doi == lower(strip(ws.doi))
    IN  IF doi # <<>> THEN doi
        ELSE IF ~ws.put_code THEN <<>>
        ELSE IF ws.full.status # "ok" THEN <<>>
        ELSE lower(strip(ws.full.doi))

\* str hashes are salted per process: the seeds a run can start with
Seeds == {0, 1}

\* the order in which a set of str is iterated in a process with hash seed sd
RECURSIVE set_iter(_, _)
set_iter(S, sd) ==
    IF S = {} THEN <<>>
    ELSE LET lo == CHOOSE x \in S : \A y \in S \ {x} : StrLess(x, y)
             hi == CHOOSE x \in S : \A y \in S \ {x} : StrLess(y, x)
             m == IF sd = 0 THEN lo ELSE hi
         IN  <<m>> \o set_iter(S \ {m}, sd)

\* sorted(): one element put in its place in an ascending list
RECURSIVE insert_asc(_, _)
insert_asc(x, acc) ==
    IF acc = <<>> THEN <<x>>
    ELSE IF StrLess(x, Head(acc)) THEN <<x>> \o acc
    ELSE <<Head(acc)>> \o insert_asc(x, Tail(acc))

\* sorted(dois): the elements in iteration order, sorted ascending
RECURSIVE sorted(_)
sorted(xs) ==
    IF xs = <<>> THEN <<>>
    ELSE insert_asc(xs[Len(xs)], sorted(SubSeq(xs, 1, Len(xs) - 1)))

\* list_orcid_dois that returns list(dois)
list_orcid_dois_unsorted(resp, sd) ==
    IF resp.status # "ok" THEN <<>>
    ELSE set_iter({ summary_doi(resp.works[i]) : i \in 1..Len(resp.works) }
                  \ {<<>>}, sd)

\* list_orcid_dois(orcid), given the response to GET /works, in a process
\* with hash seed sd
list_orcid_dois(resp, sd) ==
    IF resp.status # "ok" THEN <<>>
    ELSE sorted(set_iter({ summary_doi(resp.works[i]) : i \in 1..Len(resp.works) }
                         \ {<<>>}, sd))

\* fetch_openalex_by_doi(doi), given the response to GET /works/doi:...
fetch_openalex_by_doi(doi, resp) ==
    IF resp.status # "ok" THEN NoneRec
    ELSE LET w == resp.w
             doi_plain == doi_plain_of(doi)
         IN  [title |-> norm_ws(w.title),
              authors |-> join(w.names),
              year |-> IF Truthy(w.publication_year) THEN w.publication_year
                       ELSE YStr(<<>>),
              venue |-> w.venue,
              url |-> <<"https://doi.org/">> \o doi_plain,
              eprint_url |-> IF w.url_for_pdf # <<>> THEN w.url_for_pdf
                             ELSE IF w.oa_url # <<>> THEN w.oa_url
                             ELSE w.landing_page_url,
              cited_by |-> safe_int(w.cited_by_count),
              source |-> <<"openalex">>,
              doi |-> doi_plain]

\* a Crossref date field: absent, or the first date part of "date-parts"
Absent == [k |-> "absent", n |-> 0, s |-> <<>>]

\* xref_year.year_from(dp)
year_from(dp) == IF dp.k = "absent" THEN <<>> ELSE str(dp)

\* xref_year(message): published-online, then published-print, then issued
xref_year(m) ==
    IF year_from(m.published_online) # <<>> THEN year_from(m.published_online)
    ELSE IF year_from(m.published_print) # <<>> THEN year_from(m.published_print)
    ELSE year_from(m.issued)

\* fetch_crossref_by_doi(doi), given the response to GET /works/<doi>
fetch_crossref_by_doi(doi, resp) ==
    IF resp.status # "ok" THEN NoneRec
    ELSE LET m == resp.m
             doi_plain == doi_plain_of(doi)
         IN  [title |-> norm_ws(m.title),
              authors |-> join(m.names),
              year |-> YStr(xref_year(m)),
              venue |-> norm_ws(m.container_title),
              url |-> <<"https://doi.org/">> \o doi_plain,
              eprint_url |-> m.link,
              cited_by |-> safe_int(m.is_referenced_by_count),
              source |-> <<"crossref">>,
              doi |-> doi_plain]

\* a.get(f) or b.get(f) or "" for a str field; {} stands for a missing record
or_str(a, b, f) ==
    IF a # NoneRec /\ a[f] # <<>> THEN a[f]
    ELSE IF b # NoneRec /\ b[f] # <<>> THEN b[f]
    ELSE <<>>

\* safe_int(r.get("cited_by"), 0): cited_by of a fetched record is an int
cited_or_0(r) == IF r = NoneRec THEN 0 ELSE r.cited_by

max(x, y) == IF x >= y THEN x ELSE y

\* merge_records with the two sources swapped for the title
merge_records_swapped(oa, cr) ==
    IF oa = NoneRec /\ cr = NoneRec THEN NoneRec
    ELSE [title |-> or_str(cr, oa, "title"),
          authors |-> or_str(oa, cr, "authors"),
          year |-> IF oa # NoneRec /\ Truthy(oa.year) THEN oa.year
                   ELSE IF cr # NoneRec /\ Truthy(cr.year) THEN cr.year
                   ELSE YStr(<<>>),
          venue |-> or_str(oa, cr, "venue"),
          url |-> or_str(oa, cr, "url"),
          eprint_url |-> or_str(oa, cr, "eprint_url"),
          cited_by |-> max(cited_or_0(oa), cited_or_0(cr)),
          source |-> or_str(oa, cr, "source"),
          doi |-> or_str(oa, cr, "doi")]

merge_records(oa, cr) ==
    IF oa = NoneRec /\ cr = NoneRec THEN NoneRec
    ELSE [title |-> or_str(oa, cr, "title"),
          authors |-> or_str(oa, cr, "authors"),
          year |-> IF oa # NoneRec /\ Truthy(oa.year) THEN oa.year
                   ELSE IF cr # NoneRec /\ Truthy(cr.year) THEN cr.year
                   ELSE YStr(<<>>),
          venue |-> or_str(oa, cr, "venue"),
          url |-> or_str(oa, cr, "url"),
          eprint_url |-> or_str(oa, cr, "eprint_url"),
          cited_by |-> max(cited_or_0(oa), cited_or_0(cr)),
          source |-> or_str(oa, cr, "source"),
          doi |-> or_str(oa, cr, "doi")]

\* epub[:4] when len(epub) >= 4 and epub[:4].isdigit()
epub_year(epub) ==
    IF Len(epub) >= 4 /\ AllDigits(SubSeq(epub, 1, 4)) THEN SubSeq(epub, 1, 4)
    ELSE <<>>

\* enrich_epmc that takes the Europe PMC journal even when venue is filled
enrich_epmc_overwrite(item, resp) ==
    IF item.doi = <<>> \/ resp.status # "ok" \/ resp.recs = <<>> THEN item
    ELSE LET rec == resp.recs[1]
         IN  [item EXCEPT
                !.authors = IF @ = <<>> /\ rec.authorString # <<>>
                            THEN rec.authorString ELSE @,
                !.venue = IF rec.journalTitle # <<>> THEN rec.journalTitle ELSE @,
                !.year = IF Truthy(@) THEN @
                         ELSE IF epub_year(rec.epubDate) # <<>>
                              THEN YStr(epub_year(rec.epubDate))
                         ELSE IF Truthy(rec.pubYear) THEN YStr(str(rec.pubYear))
                         ELSE @,
                !.eprint_url = IF @ # <<>> THEN @
                               ELSE IF rec.pmcid # <<>>
                                    THEN <<"https://europepmc.org/article/pmc/">>
                                         \o rec.pmcid
                               ELSE rec.fullTextUrl]

\* enrich_epmc(item), given the response to the Europe PMC search; rec is
\* [authorString, journalTitle, epubDate, pubYear, pmcid, fullTextUrl]
enrich_epmc(item, resp) ==
    IF item.doi = <<>> \/ resp.status # "ok" \/ resp.recs = <<>> THEN item
    ELSE LET rec == resp.recs[1]
         IN  [item EXCEPT
                !.authors = IF @ = <<>> /\ rec.authorString # <<>>
                            THEN rec.authorString ELSE @,
                !.venue = IF @ = <<>> /\ rec.journalTitle # <<>>
                          THEN rec.journalTitle ELSE @,
                !.year = IF Truthy(@) THEN @
                         ELSE IF epub_year(rec.epubDate) # <<>>
                              THEN YStr(epub_year(rec.epubDate))
                         ELSE IF Truthy(rec.pubYear) THEN YStr(str(rec.pubYear))
                         ELSE @,
                !.eprint_url = IF @ # <<>> THEN @
                               ELSE IF rec.pmcid # <<>>
                                    THEN <<"https://europepmc.org/article/pmc/">>
                                         \o rec.pmcid
                               ELSE rec.fullTextUrl]

\* ------------------------------------------------------------------- state
VARIABLES
    seed,       \* the hash seed of the process (PYTHONHASHSEED)
    script,     \* which of the three scripts runs
    pc,         \* position of the run
    dois,       \* fetch_scholar.py main(): the DOI list
    idx,        \* fetch_scholar.py main(): index of the next DOI
    aid,        \* fetch_scholar_semanticscholar.py main(): the author id
    all_items,  \* main(): the accumulated record list
    artifact,   \* assets/publications.json: [st, content]
    exit_code,  \* -1 while running, then the argument of sys.exit
    fatal,      \* the except clause of __main__ was entered
    wlast,      \* outcome of the last attempt to write the file
    log,        \* the HTTP requests made so far: [ep, ok, n]
    raw,        \* the (dedupe key, cited_by) of every provider record read
    fn,         \* function applications: the function applied, "" before
    arg,        \* its arguments
    res         \* its result

vars == <<seed, script, pc, dois, idx, aid, all_items, artifact, exit_code, fatal,
          wlast, log, raw, fn, arg, res>>
runVars == <<seed, script, pc, dois, idx, aid, all_items, artifact, exit_code, fatal,
             wlast, log, raw>>
fnVars == <<fn, arg, res>>

Scripts == {"fetch_scholar", "fetch_scholar_ORCID", "fetch_scholar_semanticscholar"}

NoArtifact == [st |-> "absent", content |-> <<>>]

\* ------------------------------------------------- inputs of the functions
Titles ==
    { <<"a", " ", "b">>, <<"A", " ", "b">>, <<"a", " ", " ", "b">>,
      <<" ", "a", " ", "b">>, <<"b">> }

Y2020 == <<"2", "0", "2", "0">>
Y2021 == <<"2", "0", "2", "1">>

\* OpenAlex and Semantic Scholar give int years, Crossref (xref_year) and
\* ORCID give str years, and every adapter gives "" for an unknown year
YearsOf(sc) ==
    CASE sc = "fetch_scholar" -> {YInt(2020), YStr(Y2021), YStr(<<>>)}
      [] sc = "fetch_scholar_ORCID" -> {YStr(Y2020), YStr(Y2021), YStr(<<>>)}
      [] sc = "fetch_scholar_semanticscholar" -> {YInt(2020), YInt(2021), YStr(<<>>)}

\* fetch_scholar.py lower-cases the DOI and removes "https://doi.org/" before
\* a record is built; fetch_orcid_public only lower-cases and strips
DoisOf(sc) ==
    CASE sc = "fetch_scholar" -> {<<>>, <<"10.1/", "a">>, <<"10.1/", "b">>}
      [] sc = "fetch_scholar_ORCID" ->
            {<<>>, <<"10.1/", "a">>, <<"https://doi.org/", "10.1/", "a">>}
      [] sc = "fetch_scholar_semanticscholar" -> {<<>>}

Item(t, y, d, c, src) ==
    [title |-> t, authors |-> <<>>, year |-> y, venue |-> <<>>,
     url |-> IF d # <<>> THEN <<"https://doi.org/">> \o d ELSE <<>>,
     eprint_url |-> <<>>, cited_by |-> c, source |-> src, doi |-> d]

SourceOf(sc) ==
    CASE sc = "fetch_scholar" -> <<"openalex">>
      [] sc = "fetch_scholar_ORCID" -> <<"orcid_public">>
      [] sc = "fetch_scholar_semanticscholar" -> <<"semantic_scholar">>

\* the records a script can hand to its deduplicator
ItemsOf(sc) ==
    LET full == { Item(t, y, d, 0, SourceOf(sc)) :
                    t \in Titles, y \in YearsOf(sc), d \in DoisOf(sc) }
    IN  IF sc = "fetch_scholar_semanticscholar"
        THEN { pop(it, "doi") : it \in full } ELSE full

ListsOf(S, n) == UNION { [1..m -> S] : m \in 0..n }

\* ------------------------------------------- applying the deduplicators
\* a run before its first step, and the run variables of a function call
InitRun(p) ==
    /\ pc = p
    /\ dois = <<>> /\ idx = 1 /\ aid = <<>>
    /\ all_items = <<>>
    /\ artifact = NoArtifact
    /\ exit_code = -1
    /\ fatal = FALSE
    /\ wlast = "none"
    /\ log = <<>>
    /\ raw = {}

InitDedupe ==
    /\ seed = 0
    /\ script \in Scripts
    /\ InitRun("call")
    /\ fn = ""
    /\ arg \in ListsOf(ItemsOf(script), MaxItems)
    /\ res = <<>>

CallDedupeSort ==
    /\ pc = "call" /\ script = "fetch_scholar"
    /\ fn' = "dedupe_sort"
    /\ res' = dedupe_sort(arg)
    /\ pc' = "returned"
    /\ UNCHANGED <<seed, script, dois, idx, aid, all_items, artifact, exit_code, fatal,
                   wlast, log, raw, arg>>

CallNormItems ==
    /\ pc = "call" /\ script = "fetch_scholar_ORCID"
    /\ fn' = "norm_items"
    /\ res' = norm_items(arg)
    /\ pc' = "returned"
    /\ UNCHANGED <<seed, script, dois, idx, aid, all_items, artifact, exit_code, fatal,
                   wlast, log, raw, arg>>

CallNormalizeItems ==
    /\ pc = "call" /\ script = "fetch_scholar_semanticscholar"
    /\ fn' = "normalize_items"
    /\ res' = normalize_items(arg)
    /\ pc' = "returned"
    /\ UNCHANGED <<seed, script, dois, idx, aid, all_items, artifact, exit_code, fatal,
                   wlast, log, raw, arg>>

NextDedupe == CallDedupeSort \/ CallNormItems \/ CallNormalizeItems

SpecDedupe == InitDedupe /\ [][NextDedupe]_vars

\* ------------------------------------------------ deduplicator properties
\* the DOI identity of the data model: lower-cased, resolver prefix removed
NormDoi(it) == strip_resolver(strip(lower(get_doi(it))))

\* titles that differ only by letter case or by whitespace
SameTitle(a, b) == lower(norm_ws(a.title)) = lower(norm_ws(b.title))

\* C3: of the records of a candidate list that share a non-empty DOI (case
\* folded, resolver prefix removed), exactly one is in the deduplicated list.
C3_DoiDedupe ==
    pc = "returned" =>
        \A i, j \in 1..Len(arg) :
            (i < j /\ NormDoi(arg[i]) # <<>> /\ NormDoi(arg[i]) = NormDoi(arg[j]))
            => Cardinality({k \in 1..Len(res) : NormDoi(res[k]) = NormDoi(arg[i])}) = 1

\* C4: in each script, of the records without DOI that have the same year and
\* titles differing only by case or whitespace, exactly one is in the final list.
C4_TitleYearDedupe ==
    pc = "returned" =>
        \A i, j \in 1..Len(arg) :
            (/\ i < j
             /\ get_doi(arg[i]) = <<>> /\ get_doi(arg[j]) = <<>>
             /\ arg[i].year = arg[j].year
             /\ SameTitle(arg[i], arg[j]))
            => Cardinality({k \in 1..Len(res) :
                              /\ get_doi(res[k]) = <<>>
                              /\ res[k].year = arg[i].year
                              /\ SameTitle(res[k], arg[i])}) = 1

\* C5: the deduplicated list is ordered by integer year descending and, for
\* equal years, by lower-cased title ascending.
C5_SortOrder ==
    pc = "returned" =>
        \A i \in 1..(Len(res) - 1) :
            /\ safe_int(res[i].year) >= safe_int(res[i + 1].year)
            /\ safe_int(res[i].year) = safe_int(res[i + 1].year)
               => ~StrLess(lower(res[i + 1].title), lower(res[i].title))

\* ------------------------------------------------------ provider responses
\* a request: endpoint, whether it was answered with a 2xx status and a JSON
\* body, and for a page of a listing the number of records on the page
PageReq(ep, ok, n) == [ep |-> ep, ok |-> ok, n |-> n]

Req(ep, ok) == PageReq(ep, ok, 0)

D_A == <<"10.1/", "A">>
D_a == <<"10.1/", "a">>
D_pa == <<"https://doi.org/", "10.1/", "a">>
D_b == <<"10.1/", "b">>

NoFull == [status |-> "error", doi |-> <<>>]

\* ORCID work-summaries as list_orcid_dois reads them
WsPool ==
    { [doi |-> D_A, put_code |-> TRUE, full |-> NoFull],
      [doi |-> D_pa, put_code |-> TRUE, full |-> NoFull],
      [doi |-> D_b, put_code |-> TRUE, full |-> NoFull],
      [doi |-> <<>>, put_code |-> FALSE, full |-> NoFull],
      [doi |-> <<>>, put_code |-> TRUE, full |-> NoFull],
      [doi |-> <<>>, put_code |-> TRUE, full |-> [status |-> "ok", doi |-> D_b]] }

OrcidListResponses ==
    { [status |-> st, works |-> <<>>] : st \in {"error", "malformed"} }
    \cup { [status |-> "ok", works |-> ws] : ws \in ListsOf(WsPool, MaxDois) }

\* list_orcid_dois: the requests it makes (GET /works, then one GET
\* /work/<put-code> per summary without DOI that has a put-code)
RECURSIVE orcid_detail_requests(_)
orcid_detail_requests(works) ==
    IF works = <<>> THEN <<>>
    ELSE LET ws == Head(works)
         IN  (IF lower(strip(ws.doi)) = <<>> /\ ws.put_code
              THEN <<Req("orcid_work", ws.full.status = "ok")>> ELSE <<>>)
             \o orcid_detail_requests(Tail(works))

W1 ==
    [title |-> <<"a", " ", " ", "b">>, publication_year |-> YInt(2021),
     names |-> << <<"x">> >>, venue |-> <<>>, url_for_pdf |-> <<>>,
     oa_url |-> <<>>, landing_page_url |-> <<>>, cited_by_count |-> YInt(5)]
W2 ==
    [title |-> <<>>, publication_year |-> YNone,
     names |-> <<>>, venue |-> <<"v">>, url_for_pdf |-> <<"p">>,
     oa_url |-> <<>>, landing_page_url |-> <<>>, cited_by_count |-> YNone]

OpenAlexResponses ==
    { [status |-> st, w |-> W2] : st \in {"error", "404", "malformed"} }
    \cup { [status |-> "ok", w |-> w] : w \in {W1, W2} }

M1 ==
    [title |-> <<"A", " ", "b">>, published_online |-> YInt(2020),
     published_print |-> YInt(2021), issued |-> YInt(2021),
     container_title |-> <<"j">>, names |-> << <<"y">> >>, link |-> <<"l">>,
     is_referenced_by_count |-> YInt(12)]
M2 ==
    [title |-> <<"b">>, published_online |-> Absent,
     published_print |-> Absent, issued |-> Absent,
     container_title |-> <<>>, names |-> <<>>, link |-> <<>>,
     is_referenced_by_count |-> YInt(3)]

CrossrefResponses ==
    { [status |-> st, m |-> M2] : st \in {"error", "404"} }
    \cup { [status |-> "ok", m |-> m] : m \in {M1, M2} }

R1 ==
    [authorString |-> <<"z">>, journalTitle |-> <<"e">>,
     epubDate |-> <<"2", "0", "1", "9", "-">>, pubYear |-> YNone,
     pmcid |-> <<"PMC1">>, fullTextUrl |-> <<>>]

EpmcResponses ==
    { [status |-> "error", recs |-> <<>>], [status |-> "ok", recs |-> <<>>],
      [status |-> "ok", recs |-> <<R1>>] }

\* the key a raw record is filed under: its DOI as the deduplicators read it
RawOf(r) ==
    IF r = NoneRec THEN {}
    ELSE {[key |-> strip(lower(r.doi)), cited_by |-> r.cited_by]}

\* ------------------------------------------------------- fetch_scholar.py
\* main(): dois = list_orcid_dois(ORCID_ID)
ListOrcidDois ==
    /\ script = "fetch_scholar" /\ pc = "start"
    /\ \E resp \in OrcidListResponses :
         /\ log' = log \o <<Req("orcid_works", resp.status # "error")>>
                       \o (IF resp.status = "ok"
                           THEN orcid_detail_requests(resp.works) ELSE <<>>)
         /\ IF resp.status = "malformed"
            THEN \* data.get raises outside the try: up to __main__
                 /\ pc' = "fatal"
                 /\ dois' = dois
            ELSE /\ dois' = list_orcid_dois(resp, seed)
                 /\ pc' = IF dois' = <<>> THEN "writing" ELSE "fetching"
    /\ UNCHANGED <<seed, script, idx, aid, all_items, artifact, exit_code, fatal,
                   wlast, raw, fnVars>>

\* main(): one iteration of the loop over dois
ProcessDoi ==
    /\ script = "fetch_scholar" /\ pc = "fetching" /\ idx <= Len(dois)
    /\ \E ro \in OpenAlexResponses, rc \in CrossrefResponses, re \in EpmcResponses :
         LET doi == dois[idx]
             oa == fetch_openalex_by_doi(doi, ro)
             cr == fetch_crossref_by_doi(doi, rc)
             rec == merge_records(oa, cr)
         IN  IF ro.status = "malformed"
             THEN \* w.get raises outside the try: up to __main__
                  /\ log' = Append(log, Req("openalex", TRUE))
                  /\ pc' = "fatal"
                  /\ UNCHANGED <<idx, all_items, raw>>
             ELSE /\ log' = log \o <<Req("openalex", ro.status = "ok"),
                                     Req("crossref", rc.status = "ok")>>
                              \o (IF rec # NoneRec /\ rec.doi # <<>>
                                  THEN <<Req("europepmc", re.status = "ok")>>
                                  ELSE <<>>)
                  /\ raw' = raw \cup RawOf(oa) \cup RawOf(cr)
                  /\ all_items' = IF rec = NoneRec THEN all_items
                                  ELSE Append(all_items, enrich_epmc(rec, re))
                  /\ idx' = idx + 1
                  /\ pc' = IF idx' > Len(dois) THEN "writing" ELSE "fetching"
    /\ UNCHANGED <<seed, script, dois, aid, artifact, exit_code, fatal, wlast, fnVars>>

\* -------------------------------------------------- fetch_scholar_ORCID.py
FallbackThreshold == 5

\* issued[0][0] if issued and ... else "": the year of a Crossref list item
crossref_orcid_year(it) == IF it.issued.k = "absent" THEN YStr(<<>>) ELSE it.issued

X1 ==
    [title |-> <<"b">>, DOI |-> D_A, published_online |-> YInt(2020),
     published_print |-> YInt(2021), issued |-> YInt(2021),
     is_referenced_by_count |-> YInt(7)]
X2 ==
    [title |-> <<"a", " ", "b">>, DOI |-> <<>>, published_online |-> Absent,
     published_print |-> Absent, issued |-> Absent,
     is_referenced_by_count |-> YNone]

\* a page with rows records, each with its own DOI
FullPage == [i \in 1..PageRows |-> [X1 EXCEPT !.DOI = <<"10.1/", DigitTok(i)>>]]

CrossrefListResponses ==
    { [status |-> "error", recs |-> <<>>, next_cursor |-> FALSE] }
    \cup { [status |-> "ok", recs |-> recs, next_cursor |-> nc] :
             recs \in ListsOf({X1, X2}, MaxItems) \cup {FullPage},
             nc \in BOOLEAN }

\* fetch_crossref_by_orcid(orcid), given the response to the first page: the
\* body of "for it in recs" reads the undefined names ws and journal_title,
\* so the first record of a page raises NameError before items.append
fetch_crossref_by_orcid(resp) ==
    IF resp.status # "ok" THEN [raised |-> FALSE, items |-> <<>>]
    ELSE IF resp.recs # <<>> THEN [raised |-> TRUE, items |-> <<>>]
    ELSE [raised |-> FALSE, items |-> <<>>]

\* the record of the page that the loop body reads before it raises
crossref_raw(resp) ==
    IF resp.status = "ok" /\ resp.recs # <<>>
    THEN {[key |-> strip(lower(resp.recs[1].DOI)),
           cited_by |-> safe_int(resp.recs[1].is_referenced_by_count)]}
    ELSE {}

NoDetail == [status |-> "error", names |-> <<>>, journal |-> <<>>,
             year |-> <<>>, doi |-> <<>>]

\* ORCID work-summaries as fetch_orcid_public reads them
OrcidWsPool ==
    { [title |-> <<"a", " ", "b">>, journal |-> <<"j">>, year |-> Y2020,
       doi |-> D_a, put_code |-> TRUE,
       full |-> [NoDetail EXCEPT !.status = "ok", !.names = << <<"x">>, <<"y">> >>]],
      [title |-> <<"a", " ", " ", "b">>, journal |-> <<>>, year |-> Y2020,
       doi |-> <<>>, put_code |-> FALSE, full |-> NoDetail],
      [title |-> <<"A", " ", "b">>, journal |-> <<>>, year |-> Y2020,
       doi |-> <<>>, put_code |-> TRUE, full |-> NoDetail],
      [title |-> <<>>, journal |-> <<>>, year |-> <<>>,
       doi |-> D_pa, put_code |-> TRUE,
       full |-> [NoDetail EXCEPT !.status = "ok", !.journal = <<"j">>, !.year = Y2021]],
      [title |-> <<"b">>, journal |-> <<>>, year |-> <<>>,
       doi |-> <<>>, put_code |-> TRUE,
       full |-> [NoDetail EXCEPT !.status = "ok", !.doi = D_A]] }

OrcidPublicResponses ==
    { [status |-> st, works |-> <<>>] : st \in {"error", "malformed"} }
    \cup { [status |-> "ok", works |-> ws] : ws \in ListsOf(OrcidWsPool, MaxItems) }

\* fetch_orcid_public: the record built from one work-summary
orcid_item(ws) ==
    LET detail == ws.put_code /\ ws.full.status = "ok"
        doi0 == strip(lower(ws.doi))
        doi == IF doi0 = <<>> /\ detail THEN strip(lower(ws.full.doi)) ELSE doi0
    IN  [title |-> IF ws.title # <<>> THEN ws.title ELSE <<"Untitled">>,
         authors |-> IF detail THEN join(ws.full.names) ELSE <<>>,
         year |-> YStr(IF ws.year = <<>> /\ detail THEN ws.full.year ELSE ws.year),
         venue |-> IF ws.journal = <<>> /\ detail THEN ws.full.journal ELSE ws.journal,
         url |-> IF doi # <<>> THEN <<"https://doi.org/">> \o doi ELSE <<>>,
         eprint_url |-> <<>>,
         cited_by |-> 0,
         source |-> <<"orcid_public">>,
         doi |-> doi]

\* fetch_orcid_public(orcid), given the response to GET /works (with the
\* response to each GET /work/<put-code> inside the summary); a payload that
\* is not an object raises
fetch_orcid_public(resp) ==
    IF resp.status = "malformed" THEN [raised |-> TRUE, items |-> <<>>]
    ELSE IF resp.status # "ok" THEN [raised |-> FALSE, items |-> <<>>]
    ELSE [raised |-> FALSE,
          items |-> [i \in 1..Len(resp.works) |-> orcid_item(resp.works[i])]]

RECURSIVE orcid_public_detail_requests(_)
orcid_public_detail_requests(works) ==
    IF works = <<>> THEN <<>>
    ELSE (IF Head(works).put_code
          THEN <<Req("orcid_work", Head(works).full.status = "ok")>> ELSE <<>>)
         \o orcid_public_detail_requests(Tail(works))

\* main(): try: all_items.extend(fetch_crossref_by_orcid(ORCID_ID)) except ...
FetchCrossrefByOrcid ==
    /\ script = "fetch_scholar_ORCID" /\ pc = "start"
    /\ \E resp \in CrossrefListResponses :
         LET r == fetch_crossref_by_orcid(resp)
         IN  /\ log' = Append(log, PageReq("crossref_list", resp.status = "ok",
                                        Len(resp.recs)))
             /\ raw' = raw \cup crossref_raw(resp)
             /\ all_items' = IF r.raised THEN all_items ELSE all_items \o r.items
    /\ pc' = "fetching"
    /\ UNCHANGED <<seed, script, dois, idx, aid, artifact, exit_code, fatal, wlast, fnVars>>

\* main(): if len(all_items) < 5: try: all_items.extend(fetch_orcid_public(...))
FetchOrcidPublic ==
    /\ script = "fetch_scholar_ORCID" /\ pc = "fetching"
    /\ IF Len(all_items) < FallbackThreshold
       THEN \E resp \in OrcidPublicResponses :
              LET r == fetch_orcid_public(resp)
              IN  /\ log' = log \o <<Req("orcid_works", resp.status # "error")>>
                                \o orcid_public_detail_requests(resp.works)
                  /\ raw' = raw \cup UNION { RawOf(r.items[i]) : i \in 1..Len(r.items) }
                  /\ all_items' = IF r.raised THEN all_items ELSE all_items \o r.items
       ELSE UNCHANGED <<log, raw, all_items>>
    /\ pc' = "writing"
    /\ UNCHANGED <<seed, script, dois, idx, aid, artifact, exit_code, fatal, wlast, fnVars>>

\* --------------------------------------- fetch_scholar_semanticscholar.py
A1 == <<"A1">>
A2 == <<"A2">>

\* a title that is a JSON number, not a str: str methods raise on it
JsonNumber == <<"#number">>

\* one /author/search request: it fails, finds nobody, finds the author, or
\* finds a candidate whose paperCount float() rejects
SearchOutcomes == {"error", "none", "found", "found_bad"}

\* search_author_candidates: the candidates, de-duplicated by authorId
candidates(q1, q2) ==
    LET c(q) == IF q = "found" THEN <<A1>> ELSE IF q = "found_bad" THEN <<A2>> ELSE <<>>
    IN  IF c(q1) = c(q2) THEN c(q1) ELSE c(q1) \o c(q2)

\* pick_author_id(): "" without candidates; score_candidate raises on the
\* candidate with the bad paperCount, outside every try of the function
pick_author_id(q1, q2) ==
    LET cands == candidates(q1, q2)
    IN  IF cands = <<>> THEN [raised |-> FALSE, aid |-> <<>>]
        ELSE IF \E i \in 1..Len(cands) : cands[i] = A2
             THEN [raised |-> TRUE, aid |-> <<>>]
        ELSE [raised |-> FALSE, aid |-> cands[1]]

\* the requests of pick_author_id: one search per name query, then one
\* author detail per candidate scored, up to the candidate that raises
pick_requests(q1, q2, det) ==
    LET cands == candidates(q1, q2)
        scored == IF \E i \in 1..Len(cands) : cands[i] = A2
                  THEN CHOOSE i \in 1..Len(cands) : cands[i] = A2
                  ELSE Len(cands)
    IN  <<Req("s2_search", q1 # "error"), Req("s2_search", q2 # "error")>>
        \o [i \in 1..scored |-> Req("s2_author", det)]

P1 ==
    [title |-> <<"a", " ", "b">>, year |-> YInt(2020), venue |-> <<"v">>,
     url |-> <<"u">>, openAccessPdf |-> <<>>, citationCount |-> YInt(3),
     author_ids |-> {A1}, names |-> << <<"x">> >>]
P2 ==
    [title |-> <<"a", " ", " ", "b">>, year |-> YInt(2020), venue |-> <<>>,
     url |-> <<"u">>, openAccessPdf |-> <<"p">>, citationCount |-> YNone,
     author_ids |-> {A1, A2}, names |-> << <<"x">>, <<"y">> >>]
P3 ==
    [title |-> <<"c">>, year |-> YNone, venue |-> <<>>,
     url |-> <<>>, openAccessPdf |-> <<>>, citationCount |-> YInt(1),
     author_ids |-> {A2}, names |-> << <<"y">> >>]
P4 ==
    [title |-> JsonNumber, year |-> YNone, venue |-> <<>>,
     url |-> <<>>, openAccessPdf |-> <<>>, citationCount |-> YInt(0),
     author_ids |-> {A1}, names |-> << <<"x">> >>]

\* a page with limit papers of the author, each with its own title
FullPapers ==
    [i \in 1..PageRows |-> [P1 EXCEPT !.title = [j \in 1..i |-> "c"]]]

PapersResponses ==
    { [status |-> "error", papers |-> <<>>] }
    \cup { [status |-> "ok", papers |-> ps] :
             ps \in ListsOf({P1, P2, P3, P4}, MaxItems) \cup {FullPapers} }

paper_item(p) ==
    [title |-> p.title,
     authors |-> join(p.names),
     year |-> IF Truthy(p.year) THEN p.year ELSE YStr(<<>>),
     venue |-> p.venue,
     url |-> IF p.openAccessPdf # <<>> THEN p.openAccessPdf ELSE p.url,
     eprint_url |-> p.openAccessPdf,
     cited_by |-> IF Truthy(p.citationCount) THEN p.citationCount.n ELSE 0,
     source |-> <<"semantic_scholar">>]

\* fetch_papers_for_author(author_id), given the response to GET
\* /author/<id>/papers: http_get raises on a failed request; only the papers
\* that list author_id are kept
fetch_papers_for_author(author_id, resp) ==
    IF resp.status # "ok" THEN [raised |-> TRUE, items |-> <<>>]
    ELSE LET kept == SelectSeq(resp.papers, LAMBDA p : author_id \in p.author_ids)
         IN  [raised |-> FALSE, items |-> [i \in 1..Len(kept) |-> paper_item(kept[i])]]

\* main(): aid = pick_author_id(); if not aid: write_output([]); return
PickAuthorId ==
    /\ script = "fetch_scholar_semanticscholar" /\ pc = "start"
    /\ \E q1 \in SearchOutcomes, q2 \in SearchOutcomes, det \in BOOLEAN :
         LET r == pick_author_id(q1, q2)
         IN  /\ log' = log \o pick_requests(q1, q2, det)
             /\ aid' = r.aid
             /\ pc' = IF r.raised THEN "fatal"
                      ELSE IF r.aid = <<>> THEN "writing" ELSE "fetching"
    /\ UNCHANGED <<seed, script, dois, idx, all_items, artifact, exit_code, fatal,
                   wlast, raw, fnVars>>

\* main(): try: items = fetch_papers_for_author(aid) except: items = []
FetchPapers ==
    /\ script = "fetch_scholar_semanticscholar" /\ pc = "fetching"
    /\ \E resp \in PapersResponses :
         LET r == fetch_papers_for_author(aid, resp)
         IN  /\ log' = Append(log, PageReq("s2_papers", resp.status = "ok",
                                        Len(resp.papers)))
             /\ all_items' = IF r.raised THEN <<>> ELSE r.items
    /\ pc' = "writing"
    /\ UNCHANGED <<seed, script, dois, idx, aid, artifact, exit_code, fatal, wlast,
                   raw, fnVars>>

\* ------------------------------------------------------ writer, fail-safe
\* str methods on a title that is not a str raise AttributeError; the titles
\* of fetch_scholar.py passed norm_ws and those of fetch_scholar_ORCID.py are
\* read as str
dedupe_raises(items) == \E i \in 1..Len(items) : items[i].title = JsonNumber

\* write_output(items): the list that is serialized
write_output(sc, items) ==
    CASE sc = "fetch_scholar" ->
           LET out == dedupe_sort(items)
           IN  [i \in 1..Len(out) |-> pop(out[i], "doi")]
      [] sc = "fetch_scholar_ORCID" ->
           LET out == norm_items(items)
           IN  [i \in 1..Len(out) |-> pop(out[i], "doi")]
      [] sc = "fetch_scholar_semanticscholar" -> normalize_items(items)

\* the file after an attempt to write content: the write succeeds, open()
\* raises and leaves the file as it was, or the write raises after open()
\* truncated the file
WriteOutcomes == {"ok", "open_error", "write_error"}

\* a writer that returns early, without writing, when the list is empty
file_after_skip_empty(old, content, w) ==
    IF content = <<>> THEN old
    ELSE CASE w = "ok" -> [st |-> "written", content |-> content]
           [] w = "open_error" -> old
           [] w = "write_error" -> [st |-> "partial", content |-> <<>>]

file_after(old, content, w) ==
    CASE w = "ok" -> [st |-> "written", content |-> content]
      [] w = "open_error" -> old
      [] w = "write_error" -> [st |-> "partial", content |-> <<>>]

\* a handler that writes what main() had accumulated
on_fatal_accumulated(items) == items

\* __main__: except Exception: write_output([])
on_fatal(items) == <<>>

\* main(): write_output(all_items), then sys.exit(0) in __main__; an
\* exception leaves main() for the except clause of __main__.  The pop of
\* doi also changes the dicts that all_items holds, but nothing reads
\* all_items after the write, so all_items keeps the list handed over.
WriteOutput ==
    /\ pc = "writing"
    /\ IF dedupe_raises(all_items)
       THEN /\ pc' = "fatal"
            /\ UNCHANGED <<artifact, wlast, exit_code>>
       ELSE \E w \in WriteOutcomes :
              /\ artifact' = file_after(artifact, write_output(script, all_items), w)
              /\ wlast' = w
              /\ IF w = "ok"
                 THEN pc' = "done" /\ exit_code' = 0
                 ELSE pc' = "fatal" /\ exit_code' = exit_code
    /\ UNCHANGED <<seed, script, dois, idx, aid, all_items, fatal, log, raw, fnVars>>

\* __main__: except Exception: try: write_output([]) except: pass; sys.exit(0)
FatalHandler ==
    /\ pc = "fatal"
    /\ fatal' = TRUE
    /\ \E w \in WriteOutcomes :
         /\ artifact' = file_after(artifact, write_output(script, on_fatal(all_items)), w)
         /\ wlast' = w
    /\ pc' = "done"
    /\ exit_code' = 0
    /\ UNCHANGED <<seed, script, dois, idx, aid, all_items, log, raw, fnVars>>

\* ---------------------------------------------------------------- the run
Init ==
    /\ seed \in Seeds
    /\ script \in Scripts
    /\ InitRun("start")
    /\ fn = "" /\ arg = <<>> /\ res = <<>>

Next ==
    \/ ListOrcidDois \/ ProcessDoi
    \/ FetchCrossrefByOrcid \/ FetchOrcidPublic
    \/ PickAuthorId \/ FetchPapers
    \/ WriteOutput \/ FatalHandler

Spec == Init /\ [][Next]_vars

\* --------------------------------------------------- applying merge_records
OpenAlexPayloads ==
    { [title |-> t, publication_year |-> y, names |-> n, venue |-> v,
       url_for_pdf |-> u, oa_url |-> <<>>, landing_page_url |-> <<>>,
       cited_by_count |-> YInt(5)] :
        t \in {<<>>, <<"a", " ", "b">>}, y \in {YNone, YInt(2021)},
        n \in {<<>>, << <<"x">> >>}, v \in {<<>>, <<"v">>}, u \in {<<>>, <<"p">>} }

CrossrefMessages ==
    { [title |-> t, published_online |-> y, published_print |-> Absent,
       issued |-> Absent, container_title |-> v, names |-> n, link |-> u,
       is_referenced_by_count |-> YInt(12)] :
        t \in {<<>>, <<"A", " ", "b">>}, y \in {Absent, YInt(2020)},
        n \in {<<>>, << <<"y">> >>}, v \in {<<>>, <<"j">>}, u \in {<<>>, <<"l">>} }

\* what fetch_openalex_by_doi and fetch_crossref_by_doi can return for a DOI
OpenAlexRecords ==
    {NoneRec} \cup { fetch_openalex_by_doi(D_a, [status |-> "ok", w |-> w]) :
                       w \in OpenAlexPayloads }
CrossrefRecords ==
    {NoneRec} \cup { fetch_crossref_by_doi(D_a, [status |-> "ok", m |-> m]) :
                       m \in CrossrefMessages }

InitMerge ==
    /\ seed = 0
    /\ script = "fetch_scholar"
    /\ InitRun("call")
    /\ fn = ""
    /\ arg \in OpenAlexRecords \X CrossrefRecords
    /\ res = <<>>

CallMergeRecords ==
    /\ pc = "call"
    /\ fn' = "merge_records"
    /\ res' = merge_records(arg[1], arg[2])
    /\ pc' = "returned"
    /\ UNCHANGED <<seed, script, dois, idx, aid, all_items, artifact, exit_code, fatal,
                   wlast, log, raw, arg>>

NextMerge == CallMergeRecords

SpecMerge == InitMerge /\ [][NextMerge]_vars

\* ------------------------------------------- applying the Crossref year code
DateParts == {Absent, YInt(2019), YInt(2020), YInt(2021)}

DatedMessages ==
    { [M2 EXCEPT !.published_online = o, !.published_print = p, !.issued = i] :
        o \in DateParts, p \in DateParts, i \in DateParts }

InitYear ==
    /\ seed = 0
    /\ script \in {"fetch_scholar", "fetch_scholar_ORCID"}
    /\ InitRun("call")
    /\ fn = ""
    /\ arg \in DatedMessages
    /\ res = <<>>

\* fetch_crossref_by_doi: year = xref_year(m)
CallXrefYear ==
    /\ pc = "call" /\ script = "fetch_scholar"
    /\ fn' = "xref_year"
    /\ res' = YStr(xref_year(arg))
    /\ pc' = "returned"
    /\ UNCHANGED <<seed, script, dois, idx, aid, all_items, artifact, exit_code, fatal,
                   wlast, log, raw, arg>>

\* fetch_crossref_by_orcid: year = issued[0][0] if ... else ""
CallCrossrefOrcidYear ==
    /\ pc = "call" /\ script = "fetch_scholar_ORCID"
    /\ fn' = "crossref_orcid_year"
    /\ res' = crossref_orcid_year(arg)
    /\ pc' = "returned"
    /\ UNCHANGED <<seed, script, dois, idx, aid, all_items, artifact, exit_code, fatal,
                   wlast, log, raw, arg>>

NextYear == CallXrefYear \/ CallCrossrefOrcidYear

SpecYear == InitYear /\ [][NextYear]_vars

\* ------------------------------------------------------- run properties
AllRequestsFailed == log # <<>> /\ \A i \in 1..Len(log) : ~log[i].ok

EmptyArtifact == [st |-> "written", content |-> <<>>]

\* C1: in each script, when every request of the run failed, the run ends
\* with exit status 0 (no exception escapes) and the artifact is the JSON
\* empty array []; checked for a file system that accepts the write (a
\* failing write is the case of C2), and no other content is ever written.
C1_AllFailWritesEmpty ==
    (pc = "done" /\ AllRequestsFailed) =>
        /\ exit_code = 0
        /\ wlast = "ok" => artifact = EmptyArtifact
        /\ artifact.st = "written" => artifact.content = <<>>

C1_Witness ==
    /\ pc = "done" /\ AllRequestsFailed /\ ~fatal
    /\ script = "fetch_scholar_ORCID" /\ Len(log) = 2
    /\ artifact = EmptyArtifact

Rank(p) ==
    CASE p = "start" -> 0 [] p = "fetching" -> 1 [] p = "writing" -> 2
      [] p = "fatal" -> 3 [] p = "done" -> 4

\* C2 as claimed: whatever fails, writing included, at DONE the artifact
\* exists and holds the full result or the empty array.
C2_ArtifactAlwaysWritten ==
    pc = "done" =>
        /\ exit_code = 0
        /\ artifact.st = "written"
        /\ artifact.content = IF fatal THEN <<>> ELSE write_output(script, all_items)

\* C2 amended: a run only moves forward through START, FETCHING, WRITING and
\* DONE (an exception leads to the fail-safe handler, then DONE), it is never
\* stuck inside the DOI loop, and at DONE the exit status is 0.  When the
\* last write attempt succeeded the artifact is the full result (no fatal
\* error) or [] (fatal error).  When the write of the fail-safe handler fails
\* too, the failure is swallowed and the artifact is missing or truncated.
C2_FailSafeRun ==
    /\ [](pc = "done" =>
            /\ exit_code = 0
            /\ IF wlast = "ok"
               THEN artifact = [st |-> "written",
                                content |-> IF fatal THEN <<>>
                                            ELSE write_output(script, all_items)]
               ELSE fatal /\ artifact.st \in {"absent", "partial"})
    /\ [](pc \in {"start", "fetching", "writing", "fatal", "done"})
    /\ []((script = "fetch_scholar" /\ pc = "fetching") => idx <= Len(dois))
    /\ [][Rank(pc') > Rank(pc) \/ (pc' = pc /\ idx' > idx)]_vars

C2_Witness ==
    /\ pc = "done" /\ fatal /\ wlast = "ok"
    /\ all_items # <<>>
    /\ artifact = EmptyArtifact

\* C6: every record written to the artifact has exactly the eight public
\* fields; the internal doi field is never written.
C6_PublicFieldsOnly ==
    artifact.st = "written" =>
        \A i \in 1..Len(artifact.content) : DOMAIN artifact.content[i] = PublicFields

C6_Witness ==
    /\ script = "fetch_scholar" /\ artifact.st = "written"
    /\ Len(artifact.content) = 2
    /\ \A i \in 1..Len(all_items) : all_items[i].doi # <<>>

\* C7: the year of every written record is an integer (0 when unknown),
\* never a string.
C7_YearIsInteger ==
    artifact.st = "written" =>
        \A i \in 1..Len(artifact.content) : artifact.content[i].year.k = "int"

\* the deduplicated list of a script that combines sources, before the doi
\* field is removed
FinalList ==
    IF script = "fetch_scholar" THEN dedupe_sort(all_items) ELSE norm_items(all_items)

MaxOf(S) == CHOOSE x \in S : \A y \in S : y <= x

\* C9: in the scripts that combine sources, the cited_by of every work in the
\* final list is the maximum cited_by of the raw records read for that work.
C9_CitedByIsMax ==
    (pc = "done" /\ ~fatal /\ script # "fetch_scholar_semanticscholar") =>
        \A i \in 1..Len(FinalList) :
            LET r == FinalList[i]
                counts == { x.cited_by : x \in { y \in raw : y.key = strip(lower(r.doi)) } }
            IN  r.doi # <<>> => counts # {} /\ r.cited_by = MaxOf(counts)

\* ------------------------------------------------- merge_records properties
StrFields == {"title", "authors", "venue", "url", "eprint_url", "doi"}

\* C8: merge_records gives, per field, the primary value when non-empty and
\* else the backup value; source is the first source that contributed; the
\* result is None exactly when both inputs are None.
C8_MergePrecedence ==
    (pc = "returned" /\ fn = "merge_records") =>
        LET oa == arg[1]
            cr == arg[2]
        IN  /\ (res = NoneRec) <=> (oa = NoneRec /\ cr = NoneRec)
            /\ res # NoneRec =>
                 /\ \A f \in StrFields :
                      res[f] = IF oa # NoneRec /\ oa[f] # <<>> THEN oa[f]
                               ELSE IF cr # NoneRec THEN cr[f] ELSE <<>>
                 /\ res.year = IF oa # NoneRec /\ Truthy(oa.year) THEN oa.year
                               ELSE IF cr # NoneRec THEN cr.year ELSE YStr(<<>>)
                 /\ res.source = IF oa # NoneRec THEN <<"openalex">>
                                 ELSE <<"crossref">>

C8_Witness ==
    /\ pc = "returned" /\ fn = "merge_records"
    /\ arg[1] # NoneRec /\ arg[2] # NoneRec
    /\ arg[1].title # <<>> /\ arg[2].title # <<>> /\ arg[1].title # arg[2].title
    /\ arg[1].venue = <<>> /\ arg[2].venue # <<>>
    /\ res.title = arg[1].title /\ res.venue = arg[2].venue

\* ---------------------------------------------------- year policy property
\* C10: every adapter that reads Crossref takes the published-online year
\* when present, else the published-print year, else the issued year.
C10_OnlineYearFirst ==
    pc = "returned" =>
        LET want == IF arg.published_online.k # "absent" THEN arg.published_online
                    ELSE IF arg.published_print.k # "absent" THEN arg.published_print
                    ELSE arg.issued
        IN  IF want.k = "absent" THEN ~Truthy(res)
            ELSE safe_int(res) = want.n

\* ----------------------------------------------------- applying enrich_epmc
R2 ==
    [authorString |-> <<>>, journalTitle |-> <<"e">>,
     epubDate |-> <<>>, pubYear |-> YInt(2018),
     pmcid |-> <<>>, fullTextUrl |-> <<"f">>]

EnrichResponses ==
    { [status |-> "error", recs |-> <<>>], [status |-> "ok", recs |-> <<>>],
      [status |-> "ok", recs |-> <<R1>>], [status |-> "ok", recs |-> <<R2>>] }

\* the records main() hands to enrich_epmc
MergedRecords ==
    { merge_records(oa, cr) : oa \in OpenAlexRecords, cr \in CrossrefRecords }
    \ {NoneRec}

InitEnrich ==
    /\ seed = 0
    /\ script = "fetch_scholar"
    /\ InitRun("call")
    /\ fn = ""
    /\ arg \in MergedRecords \X EnrichResponses
    /\ res = <<>>

\* main(): enrich_epmc(rec)
CallEnrichEpmc ==
    /\ pc = "call"
    /\ fn' = "enrich_epmc"
    /\ res' = enrich_epmc(arg[1], arg[2])
    /\ pc' = "returned"
    /\ UNCHANGED <<seed, script, dois, idx, aid, all_items, artifact, exit_code, fatal,
                   wlast, log, raw, arg>>

NextEnrich == CallEnrichEpmc

SpecEnrich == InitEnrich /\ [][NextEnrich]_vars

SomeRequestFailed == \E i \in 1..Len(log) : ~log[i].ok

\* C12: a failed request alone never takes the run to the fail-safe handler
\* (every step that aborts the fetching had an answered request), and in a
\* run with a failed request that ends without fatal error every record read
\* from a provider, before the failure or from another source, is in the
\* deduplicated list that is written (itself or the record that stands for
\* its DOI).
C12_FailureIsolated ==
    /\ [][(pc \in {"start", "fetching"} /\ pc' = "fatal")
            => \E i \in (Len(log) + 1)..Len(log') : log'[i].ok]_vars
    /\ []((/\ pc = "done" /\ SomeRequestFailed /\ ~fatal /\ wlast = "ok"
           /\ script # "fetch_scholar_semanticscholar") =>
            /\ artifact.content = write_output(script, all_items)
            /\ \A x \in raw : \E i \in 1..Len(FinalList) :
                  strip(lower(FinalList[i].doi)) = x.key)

\* ------------------------------------------------------------------ paging
\* the requests for a page of an author's works
ListingEndpoints == {"crossref_list", "s2_papers"}

\* C13: in a finished run, every full page an adapter received is followed
\* by a request for the next page of the same listing, and no request for a
\* page follows an empty or short page (fewer than PageRows records); the
\* listing makes at most one request per page up to that one.
C13_PagesUntilShort ==
    pc = "done" =>
        \A i \in 1..Len(log) :
            (log[i].ep \in ListingEndpoints /\ log[i].ok) =>
                IF log[i].n >= PageRows
                THEN \E j \in (i + 1)..Len(log) : log[j].ep = log[i].ep
                ELSE \A j \in (i + 1)..Len(log) : log[j].ep # log[i].ep

\* ------------------------------------------- source priority, ORCID script
\* the number of works the Crossref listing returned
CrossrefListed ==
    IF \E i \in 1..Len(log) : log[i].ep = "crossref_list" /\ log[i].ok
    THEN (CHOOSE r \in { log[i] : i \in 1..Len(log) } :
             r.ep = "crossref_list" /\ r.ok).n
    ELSE 0

OrcidQueried == \E i \in 1..Len(log) : log[i].ep = "orcid_works"

\* C15: in a finished run of the ORCID script, when the Crossref listing
\* returned 5 or more works the ORCID public API was not queried and the
\* Crossref works read are written with their Crossref cited-by counts; the
\* ORCID public API was queried only when Crossref gave fewer than 5 works.
C15_CrossrefPriority ==
    (script = "fetch_scholar_ORCID" /\ pc = "done" /\ ~fatal /\ wlast = "ok") =>
        /\ CrossrefListed >= FallbackThreshold =>
              /\ ~OrcidQueried
              /\ \A x \in raw : \E i \in 1..Len(artifact.content) :
                    /\ artifact.content[i].cited_by = x.cited_by
                    /\ artifact.content[i].url = <<"https://doi.org/">> \o x.key
        /\ OrcidQueried => CrossrefListed < FallbackThreshold

\* ----------------------------------------------- DOI and title-year identity
HasDoi(it) == strip(lower(get_doi(it))) # <<>>

\* r is the record of the final list that it was identified with
StandsFor(r, it) ==
    IF HasDoi(it) THEN strip(lower(get_doi(r))) = strip(lower(get_doi(it)))
    ELSE /\ ~HasDoi(r) /\ SameTitle(r, it)
         /\ year_or_empty(r.year) = year_or_empty(it.year)

\* the dedupe key of the script whose deduplicator was applied
KeyOf(it) ==
    CASE fn = "dedupe_sort" -> dedupe_key(it)
      [] fn = "norm_items" -> norm_items_key(it)
      [] fn = "normalize_items" -> normalize_items_key(it)

ReqDois == { summary_doi(ws) : ws \in WsPool } \ {<<>>}

\* the upstream of one script: the response to each request it can make
\* (per DOI for OpenAlex and Crossref)
Upstreams(sc) ==
    CASE sc = "fetch_scholar" ->
           [orcid : OrcidListResponses,
            oa : [ReqDois -> { [status |-> "error", w |-> W2],
                               [status |-> "ok", w |-> W1] }],
            cr : [ReqDois -> { [status |-> "error", m |-> M2],
                               [status |-> "ok", m |-> M1] }],
            ep : { [status |-> "error", recs |-> <<>>],
                   [status |-> "ok", recs |-> <<R1>>] }]
      [] sc = "fetch_scholar_ORCID" ->
           [xr : CrossrefListResponses, op : OrcidPublicResponses]
      [] sc = "fetch_scholar_semanticscholar" ->
           [q1 : SearchOutcomes, q2 : SearchOutcomes, papers : PapersResponses]

\* fetch_scholar.py main(): the loop over dois, acc = [raised, items]
RECURSIVE main_loop(_, _, _)
main_loop(ds, up, acc) ==
    IF ds = <<>> THEN acc
    ELSE LET doi == Head(ds)
             ro == up.oa[doi]
             rec == merge_records(fetch_openalex_by_doi(doi, ro),
                                  fetch_crossref_by_doi(doi, up.cr[doi]))
         IN  IF ro.status = "malformed"
             THEN [raised |-> TRUE, items |-> acc.items]
             ELSE main_loop(Tail(ds), up,
                      [raised |-> FALSE,
                       items |-> IF rec = NoneRec THEN acc.items
                                 ELSE Append(acc.items, enrich_epmc(rec, up.ep))])

\* main() up to write_output, as a function of the upstream and the hash
\* seed: whether an exception left main(), and the list handed to the writer
main_items(sc, up, sd) ==
    CASE sc = "fetch_scholar" ->
           IF up.orcid.status = "malformed"
           THEN [raised |-> TRUE, items |-> <<>>]
           ELSE main_loop(list_orcid_dois(up.orcid, sd), up,
                          [raised |-> FALSE, items |-> <<>>])
      [] sc = "fetch_scholar_ORCID" ->
           LET c == fetch_crossref_by_orcid(up.xr)
               first == IF c.raised THEN <<>> ELSE c.items
               o == fetch_orcid_public(up.op)
           IN  [raised |-> FALSE,
                items |-> IF Len(first) < FallbackThreshold /\ ~o.raised
                          THEN first \o o.items ELSE first]
      [] sc = "fetch_scholar_semanticscholar" ->
           LET a == pick_author_id(up.q1, up.q2)
               r == fetch_papers_for_author(a.aid, up.papers)
           IN  IF a.raised THEN [raised |-> TRUE, items |-> <<>>]
               ELSE IF a.aid = <<>> THEN [raised |-> FALSE, items |-> <<>>]
               ELSE [raised |-> FALSE,
                     items |-> IF r.raised THEN <<>> ELSE r.items]

\* __main__: the content of the artifact after the run, on a file system
\* that accepts the write
run_artifact(sc, up, sd) ==
    LET m == main_items(sc, up, sd)
    IN  IF m.raised \/ dedupe_raises(m.items) THEN write_output(sc, on_fatal(m.items))
        ELSE write_output(sc, m.items)

InitTwice ==
    /\ seed \in Seeds
    /\ script \in Scripts
    /\ InitRun("call")
    /\ fn = ""
    /\ arg \in Upstreams(script)
    /\ res = <<>>

\* one run of __main__ in a process with the hash seed of the state
RunOnce ==
    /\ pc = "call"
    /\ fn' = "main"
    /\ res' = <<[sd |-> seed, out |-> run_artifact(script, arg, seed)]>>
    /\ pc' = "once"
    /\ UNCHANGED <<seed, script, dois, idx, aid, all_items, artifact, exit_code,
                   fatal, wlast, log, raw, arg>>

\* a second run in a new process (its own hash seed), same upstream
RunAgain ==
    /\ pc = "once"
    /\ seed' \in Seeds
    /\ res' = Append(res, [sd |-> seed', out |-> run_artifact(script, arg, seed')])
    /\ pc' = "returned"
    /\ UNCHANGED <<script, dois, idx, aid, all_items, artifact, exit_code,
                   fatal, wlast, log, raw, fn, arg>>

NextTwice == RunOnce \/ RunAgain

SpecTwice == InitTwice /\ [][NextTwice]_vars

\* C14: two runs of one script that get the same response to every request
\* write the same artifact, record by record, field by field and in the same
\* order, whatever the hash seeds of the two processes.
C14_SameArtifact ==
    pc = "returned" => res[1].out = res[2].out

\* two runs with different hash seeds that write two different records with
\* equal (year, lower-cased title) sort keys
C14_Witness ==
    /\ pc = "returned" /\ script = "fetch_scholar"
    /\ res[1].sd # res[2].sd
    /\ Len(res[2].out) = 2
    /\ res[2].out[1] # res[2].out[2]
    /\ sort_key(res[2].out[1]) = sort_key(res[2].out[2])

====
